---- MODULE Spec2Model ----
(***************************************************************************)
(* Model of the loop registry of project-papa-client:                      *)
(*   src/src/generation/Coordinator.ts  (class Coordinator)                *)
(*   src/src/generation/LiveLoop.ts     (class LiveLoop)                   *)
(* One action per public operation of LiveLoop; every action contains the  *)
(* whole synchronous call chain (LiveLoop -> Coordinator -> runCode).      *)
(*                                                                         *)
(* Representation choices                                                  *)
(*   - the k-th LiveLoop object constructed is loops[k]; its field id is   *)
(*     k-1 (LiveLoop.idCount++ starts at 0);                               *)
(*   - a JavaScript Set is an insertion-ordered sequence without           *)
(*     duplicates (iteration order of Set is insertion order);             *)
(*   - a volume v is held in tenths (VolumeUnit = 1.0);                    *)
(*   - text is kept structured: a loop's ruby is the list of its wrappers  *)
(*     outermost first, a program is the global wrapper with what is       *)
(*     inside it and what follows it;                                      *)
(*   - the JavaScript value undefined is UndefinedScope for a scope        *)
(*     number and UndefinedText for a string.                              *)
(***************************************************************************)
EXTENDS Integers, Sequences, FiniteSets

\* ------------------------------------------------------------------ bounds
\* The constructor fills the pool with FirstScope .. ScopeLimit-1; the source
\* has ScopeLimit = 128, the model keeps the loop and shrinks its limit.
ScopeLimit == 5
\* Cap on LiveLoop.idCount (number of constructor calls explored).
MaxLoops == 4
\* Largest effect-catalog size explored (getNumberOfEffects() in 1..MaxEffects).
MaxEffects == 2
\* Cap on the number of setVolume / nextEffect / prevEffect calls explored.
MaxSetterCalls == 2
\* Runs that call a setter are explored up to this many constructed loops;
\* runs without setter calls up to MaxLoops.
MaxLoopsWithSetters == 2
\* Cap on the number of records the transport's stream produces.
MaxRecords == 2
\* Cap on the number of subscriptions made to telemetry streams.
MaxSubscriptions == 2
\* Runs with telemetry are explored up to this many constructed loops.
MaxLoopsWithTelemetry == 1

\* --------------------------------------------------------------- constants
FirstScope == 2
GLOBAL_OSCILLOSCOPE_INDEX == 1
VolumeUnit == 10
UndefinedScope == -1
UndefinedText == "undefined"
header == "use_bpm 100 ... live_loop :metronome_8"

\* Arguments the callers pass.
LiveLoopName == {"weird_vinyl"}
VolumeInputs == {-50, 3, 50}

VARIABLES
  numOfEffects,    \* LiveLoop.numOfEffects (static, = getNumberOfEffects())
  idCount,         \* LiveLoop.idCount (static)
  loops,           \* the LiveLoop objects constructed so far, by id
  freeScopeNums,   \* Coordinator.freeScopeNums
  activeLoops,     \* Coordinator.activeLoops
  deadLoops,       \* Coordinator.deadLoops
  outputRuby,      \* Coordinator.outputRuby
  called,          \* the last call made: [op, loop, arg]
  thrown,          \* what the last call threw ("none" when it returned)
  runCodeLog,      \* the programs the last call handed to communicator.runCode
  stopCount,       \* per loop: stop blocks handed to runCode so far, all calls
  compiledFrom,    \* per loop: the fields its last completed generateRuby read
  setterCalls,     \* number of setter calls made so far
  oscStream,       \* the records communicator.oscData() has produced so far
  subscriptions    \* the subscriptions made to oscilloscopeData streams

vars == <<numOfEffects, idCount, loops, freeScopeNums, activeLoops, deadLoops,
          outputRuby, called, thrown, runCodeLog, stopCount, compiledFrom,
          setterCalls, oscStream, subscriptions>>

\* what the registry calls leave alone
telemetryVars == <<oscStream, subscriptions>>
\* what the telemetry stream leaves alone
registryVars == <<numOfEffects, idCount, loops, freeScopeNums, activeLoops,
                  deadLoops, outputRuby, called, thrown, runCodeLog, stopCount,
                  compiledFrom, setterCalls>>

\* ------------------------------------------------------------ pure helpers
Range(s) == {s[i] : i \in 1..Len(s)}

RECURSIVE Count(_, _)
\* number of positions of s holding x
Count(s, x) ==
  IF s = <<>> THEN 0
  ELSE (IF Head(s) = x THEN 1 ELSE 0) + Count(Tail(s), x)

\* mutant: the value is not removed
WithoutNothing(s, x) == s

RECURSIVE Without(_, _)
\* Set.prototype.delete on an insertion-ordered set
Without(s, x) ==
  IF s = <<>> THEN <<>>
  ELSE IF Head(s) = x THEN Without(Tail(s), x)
  ELSE <<Head(s)>> \o Without(Tail(s), x)

\* mutant: the value is not added
SetAddDropped(s, x) == s

\* Set.prototype.add: a member keeps its place, a new value goes last
SetAdd(s, x) == IF x \in Range(s) THEN s ELSE Append(s, x)

Abs(a) == IF a < 0 THEN -a ELSE a

\* The % operator of JavaScript: the result takes the sign of the dividend.
JsRem(a, n) == IF a < 0 THEN -(Abs(a) % n) ELSE a % n

\* ------------------------------------------------------- directory (./directory)
getRubyForLiveLoop(name) == "ruby_of_" \o name

\* An effect descriptor; getEffect of an index outside the directory has no entry.
getEffect(i) ==
  IF i \in 0..(numOfEffects - 1)
  THEN [defined |-> TRUE, name |-> i]
  ELSE [defined |-> FALSE, name |-> i]

\* ------------------------------------------------------------ Coordinator
\* constructor: for (i = 2; i < 128; i++) freeScopeNums.push(i)
InitialScopes == [i \in 1..(ScopeLimit - FirstScope) |-> FirstScope + i - 1]

\* getFreeScope: Array.prototype.shift, undefined on an empty array
ShiftValue(pool) == IF pool = <<>> THEN UndefinedScope ELSE Head(pool)

\* mutant: the number handed out stays in the pool (pool[0] instead of shift)
ShiftRestKept(pool) == pool

ShiftRest(pool) == IF pool = <<>> THEN <<>> ELSE Tail(pool)

\* mutant: the released number is put at the front of the pool (unshift)
ReleaseScopeFront(pool, n) == <<n>> \o pool

\* removeLoopFromSet line 97: freeScopeNums.push(l.getScopeNum())
ReleaseScope(pool, n) == Append(pool, n)

\* mutant: generateRuby without the loop of lines 125-131 (no stop block)
ProgramNoStops(ls, active, dead) ==
  [ before    |-> <<>>,
    scope_num |-> GLOBAL_OSCILLOSCOPE_INDEX,
    head      |-> header,
    inside    |-> [i \in 1..Len(active) |-> ls[active[i]].outputRuby],
    after     |-> <<>> ]

\* mutant: the header is written before the global wrapper, not inside it
ProgramHeaderOutside(ls, active, dead) ==
  [ before    |-> <<header>>,
    scope_num |-> GLOBAL_OSCILLOSCOPE_INDEX,
    head      |-> "",
    inside    |-> [i \in 1..Len(active) |-> ls[active[i]].outputRuby],
    after     |-> [i \in 1..Len(dead) |-> ls[dead[i]].tag] ]

\* generateRuby lines 110-122: header and every active loop's ruby, wrapped
\* once in the global scope_out; lines 125-131: one stop block per dead loop.
Program(ls, active, dead) ==
  [ before    |-> <<>>,
    scope_num |-> GLOBAL_OSCILLOSCOPE_INDEX,
    head      |-> header,
    inside    |-> [i \in 1..Len(active) |-> ls[active[i]].outputRuby],
    after     |-> [i \in 1..Len(dead) |-> ls[dead[i]].tag] ]

\* mutant: generateRuby without the reset of line 134
DeadKept(dead) == dead

\* generateRuby lines 133-135: deadLoops is reset once the stops are written
DeadAfterGenerate(dead) == <<>>

\* --------------------------------------------------------------- LiveLoop
Tag(id, name) == [id |-> id, name |-> name]

\* mutant: setVolume without the two tests of lines 51-54
ClampNone(v) == v

\* setVolume lines 51-57
Clamp(v) == IF v < 0 THEN 0 ELSE IF v > VolumeUnit THEN VolumeUnit ELSE v

\* mutant: the telemetry wrapper takes its number from the coordinator's
\* state (the count of active loops) instead of the loop's own scopeNum
LoopRubyOfRegistry(l) ==
  << [fx |-> "live_loop", tag |-> l.tag],
     [fx |-> "sonic-pi-fx_scope_out", scope_num |-> Len(activeLoops)],
     [fx |-> "level", amp |-> l.volume],
     [fx |-> "with_fx", name |-> l.effectData.name],
     [fx |-> "body", text |-> l.rawRuby] >>

\* the fields LiveLoop.generateRuby reads (lines 85, 88, 92, 97, 100)
FieldsRead(l) ==
  [ rawRuby |-> l.rawRuby, effectData |-> l.effectData, volume |-> l.volume,
    scopeNum |-> l.scopeNum, tag |-> l.tag ]

\* generateRuby lines 85-100 with effectData defined: the wrappers, outermost first
LoopRuby(l) ==
  << [fx |-> "live_loop", tag |-> l.tag],
     [fx |-> "sonic-pi-fx_scope_out", scope_num |-> l.scopeNum],
     [fx |-> "level", amp |-> l.volume],
     [fx |-> "with_fx", name |-> l.effectData.name],
     [fx |-> "body", text |-> l.rawRuby] >>

\* generateRuby line 85 alone (line 88 throws when effectData is undefined):
\* outputRuby has been reset to rawRuby and carries no wrapper
BareRuby(l) == << [fx |-> "body", text |-> l.rawRuby] >>

\* constructor lines 23-30: the fields of a new LiveLoop before generateRuby.
\* Line 26 binds the looked-up ruby to a local const, so the field rawRuby
\* (line 6) is never assigned and stays undefined.
NewFields(id, name, scope) ==
  [ id         |-> id,
    name       |-> name,
    rawRuby    |-> UndefinedText,
    volume     |-> VolumeUnit,
    effectNum  |-> 0,
    effectData |-> getEffect(0),
    scopeNum   |-> scope,
    tag        |-> Tag(id, name) ]

\* the object once generateRuby (line 32) has run
WithRuby(f) ==
  [ id |-> f.id, name |-> f.name, rawRuby |-> f.rawRuby, volume |-> f.volume,
    effectNum |-> f.effectNum, effectData |-> f.effectData,
    scopeNum |-> f.scopeNum, tag |-> f.tag, outputRuby |-> LoopRuby(f) ]

\* ------------------------------------------------------------------- state
Init ==
  /\ numOfEffects \in 1..MaxEffects
  /\ idCount = 0
  /\ loops = <<>>
  /\ freeScopeNums = InitialScopes
  /\ activeLoops = <<>>
  /\ deadLoops = <<>>
  /\ outputRuby = UndefinedText
  /\ called = [op |-> "none", loop |-> 0, arg |-> 0]
  /\ thrown = "none"
  /\ runCodeLog = <<>>
  /\ stopCount = <<>>
  /\ compiledFrom = <<>>
  /\ setterCalls = 0
  /\ oscStream = <<>>
  /\ subscriptions = <<>>

Constructed == DOMAIN loops

\* mutant: removeLoopFromSet without the membership test of line 88
IsActiveAlways(id) == TRUE

\* removeLoopFromSet line 88: this.activeLoops.has(l)
IsActive(id) == id \in Range(activeLoops)

\* Coordinator.generateRuby (lines 107-140) on the loop objects ls
CoordinatorGenerateRuby(ls, active, dead) ==
  /\ outputRuby' = Program(ls, active, dead)
  /\ deadLoops' = DeadAfterGenerate(dead)
  /\ runCodeLog' = <<Program(ls, active, dead)>>
  /\ stopCount' = [i \in DOMAIN ls |->
                     (IF i \in DOMAIN stopCount THEN stopCount[i] ELSE 0)
                       + Count(Program(ls, active, dead).after, ls[i].tag)]

\* a call that reaches neither Coordinator.generateRuby nor runCode
NoPublish ==
  /\ runCodeLog' = <<>>
  /\ UNCHANGED <<outputRuby, deadLoops, stopCount>>

\* ------------------------------------------------------ exploration bounds
LoopCap ==
  IF oscStream # <<>> \/ subscriptions # <<>> THEN MaxLoopsWithTelemetry
  ELSE IF setterCalls # 0 THEN MaxLoopsWithSetters
  ELSE MaxLoops
SetterAllowed == setterCalls < MaxSetterCalls /\ idCount <= MaxLoopsWithSetters
TelemetryAllowed == idCount <= MaxLoopsWithTelemetry

\* ----------------------------------------------------------------- actions
\* new LiveLoop(name): LiveLoop.ts 19-35, Coordinator.getFreeScope 63-68,
\* Coordinator.addLoopToSet 75-81, Coordinator.generateRuby 107-140
NewLiveLoop(name) ==
  /\ idCount < LoopCap
  /\ LET k    == idCount + 1   \* the handle of the new object
         l    == WithRuby(NewFields(idCount, name, ShiftValue(freeScopeNums)))
         ls   == [i \in 1..k |-> IF i = k THEN l ELSE loops[i]]
         act  == SetAdd(activeLoops, k)
     IN /\ freeScopeNums' = ShiftRest(freeScopeNums)
        /\ idCount' = idCount + 1
        /\ loops' = ls
        /\ activeLoops' = act
        /\ CoordinatorGenerateRuby(ls, act, deadLoops)
        /\ compiledFrom' = [i \in 1..k |-> IF i = k THEN FieldsRead(l)
                                                   ELSE compiledFrom[i]]
        /\ called' = [op |-> "new", loop |-> k, arg |-> 0]
        /\ thrown' = "none"
  /\ UNCHANGED <<numOfEffects, setterCalls, oscStream, subscriptions>>

\* LiveLoop.delete 116-118 -> Coordinator.removeLoopFromSet 86-100
Delete(k) ==
  /\ k \in Constructed
  /\ called' = [op |-> "delete", loop |-> k, arg |-> 0]
  /\ IF ~IsActive(k)
     THEN /\ thrown' = "Error"
          /\ NoPublish
          /\ UNCHANGED <<activeLoops, freeScopeNums>>
     ELSE /\ thrown' = "none"
          /\ activeLoops' = Without(activeLoops, k)
          /\ freeScopeNums' = ReleaseScope(freeScopeNums, loops[k].scopeNum)
          /\ CoordinatorGenerateRuby(loops, Without(activeLoops, k),
                                     SetAdd(deadLoops, k))
  /\ UNCHANGED <<numOfEffects, idCount, loops, compiledFrom, setterCalls,
                 oscStream, subscriptions>>

\* LiveLoop.setVolume 50-58: assigns the clamped volume and returns; it calls
\* neither generateRuby nor the coordinator
SetVolume(k, v) ==
  /\ k \in Constructed
  /\ SetterAllowed
  /\ setterCalls' = setterCalls + 1
  /\ called' = [op |-> "setVolume", loop |-> k, arg |-> v]
  /\ thrown' = "none"
  /\ loops' = [loops EXCEPT ![k].volume = Clamp(v)]
  /\ NoPublish
  /\ UNCHANGED <<numOfEffects, idCount, freeScopeNums, activeLoops, compiledFrom,
                 oscStream, subscriptions>>

\* What getEffect does with an index outside the directory is not in src/:
\* it returns undefined (an array or map lookup) or it throws.
MissingEffectOutcomes == {"undefined", "throws"}

\* The body shared by nextEffect and prevEffect once effectNum is assigned
\* (lines 61/70): getEffect (64/73), then generateAndPushRuby (106-109) =
\* LiveLoop.generateRuby (82-101) and Coordinator.generateRuby (107-140).
ApplyEffectNum(k, n) ==
  LET e  == getEffect(n)
      l1 == [loops[k] EXCEPT !.effectNum = n, !.effectData = e]
      l2 == [l1 EXCEPT !.outputRuby = LoopRuby(l1)]
      ls == [loops EXCEPT ![k] = l2]
  IN IF e.defined
     THEN /\ loops' = ls
          /\ compiledFrom' = [compiledFrom EXCEPT ![k] = FieldsRead(l1)]
          /\ thrown' = "none"
          /\ CoordinatorGenerateRuby(ls, activeLoops, deadLoops)
     ELSE \E outcome \in MissingEffectOutcomes :
            /\ NoPublish
            /\ UNCHANGED compiledFrom
            /\ IF outcome = "undefined"
               \* effectData is undefined; generateRuby line 85 resets
               \* outputRuby and line 88 throws on effectData.name
               THEN /\ loops' = [loops EXCEPT ![k] =
                                   [l1 EXCEPT !.outputRuby = BareRuby(l1)]]
                    /\ thrown' = "TypeError"
               \* getEffect itself throws: only effectNum has changed
               ELSE /\ loops' = [loops EXCEPT ![k].effectNum = n]
                    /\ thrown' = "DirectoryError"

\* LiveLoop.nextEffect line 61
NextIndex(i, n) == JsRem(i + 1, n)
\* LiveLoop.prevEffect line 70
PrevIndex(i, n) == JsRem(i - 1, n)

\* LiveLoop.nextEffect 60-67
NextEffect(k) ==
  /\ k \in Constructed
  /\ SetterAllowed
  /\ setterCalls' = setterCalls + 1
  /\ called' = [op |-> "nextEffect", loop |-> k, arg |-> 0]
  /\ ApplyEffectNum(k, NextIndex(loops[k].effectNum, numOfEffects))
  /\ UNCHANGED <<numOfEffects, idCount, freeScopeNums, activeLoops,
                 oscStream, subscriptions>>

\* LiveLoop.prevEffect 69-76
PrevEffect(k) ==
  /\ k \in Constructed
  /\ SetterAllowed
  /\ setterCalls' = setterCalls + 1
  /\ called' = [op |-> "prevEffect", loop |-> k, arg |-> 0]
  /\ ApplyEffectNum(k, PrevIndex(loops[k].effectNum, numOfEffects))
  /\ UNCHANGED <<numOfEffects, idCount, freeScopeNums, activeLoops,
                 oscStream, subscriptions>>

\* LiveLoop.generateRuby 82-101 called on its own: it regenerates outputRuby
\* from the loop's fields and does not reach the coordinator; with effectData
\* undefined it resets outputRuby (line 85) and throws at line 88
GenerateRuby(k) ==
  /\ k \in Constructed
  /\ SetterAllowed
  /\ setterCalls' = setterCalls + 1
  /\ called' = [op |-> "generateRuby", loop |-> k, arg |-> 0]
  /\ IF loops[k].effectData.defined
     THEN /\ loops' = [loops EXCEPT ![k].outputRuby = LoopRuby(loops[k])]
          /\ compiledFrom' = [compiledFrom EXCEPT ![k] = FieldsRead(loops[k])]
          /\ thrown' = "none"
     ELSE /\ loops' = [loops EXCEPT ![k].outputRuby = BareRuby(loops[k])]
          /\ UNCHANGED compiledFrom
          /\ thrown' = "TypeError"
  /\ NoPublish
  /\ UNCHANGED <<numOfEffects, idCount, freeScopeNums, activeLoops,
                 oscStream, subscriptions>>

Next ==
  \/ \E name \in LiveLoopName : NewLiveLoop(name)
  \/ \E k \in 1..MaxLoops : Delete(k)
  \/ \E k \in 1..MaxLoops, v \in VolumeInputs : SetVolume(k, v)
  \/ \E k \in 1..MaxLoops : NextEffect(k)
  \/ \E k \in 1..MaxLoops : PrevEffect(k)

Spec == Init /\ [][Next]_vars

\* --------------------------------------------------------------- telemetry
\* The records of the transport's multiplexed stream: one amplitude per scope
\* number; two records that differ on every channel and between neighbours.
OscRecords ==
  { [c \in GLOBAL_OSCILLOSCOPE_INDEX..(ScopeLimit - 1) |-> (c + r) % 2] :
      r \in {0, 1} }

\* how a subscription was obtained: a loop's id, GlobalCall, or DirectCall
GlobalCall == 0
DirectCall == -1

\* mutant: the map reads the global index whatever scopeNum is
SelectGlobal(rec, scopeNum) == rec[GLOBAL_OSCILLOSCOPE_INDEX]

\* oscilloscopeDataForIndex line 145: oscData => oscData.oscData[scopeNum]
\* (undefined for a scopeNum the record has no entry for)
SelectScope(rec, scopeNum) ==
  IF scopeNum \in DOMAIN rec THEN rec[scopeNum] ELSE UndefinedScope

\* oscilloscopeDataForIndex lines 143-145 subscribed to: a subscription on
\* communicator.oscData().map(...); via is how it was obtained, since is the
\* number of records the stream had produced when it was made
NewSubscription(via, scopeNum) ==
  [ via |-> via, scopeNum |-> scopeNum, since |-> Len(oscStream),
    received |-> <<>> ]

\* the stream hands a record to every subscription, through the map of
\* line 145
Deliver(subs, rec) ==
  [i \in 1..Len(subs) |->
     [subs[i] EXCEPT !.received = Append(@, SelectScope(rec, subs[i].scopeNum))]]

\* Coordinator.oscilloscopeDataForIndex 142-146 called with a scope number of
\* the caller's choosing, and subscribe
OscilloscopeDataForIndex(scopeNum) ==
  /\ TelemetryAllowed
  /\ Len(subscriptions) < MaxSubscriptions
  /\ subscriptions' = Append(subscriptions, NewSubscription(DirectCall, scopeNum))
  /\ UNCHANGED oscStream
  /\ UNCHANGED registryVars

\* LiveLoop.oscilloscopeData 120-122 and subscribe (as World.startLiveLoop does)
OscilloscopeData(k) ==
  /\ k \in Constructed
  /\ TelemetryAllowed
  /\ Len(subscriptions) < MaxSubscriptions
  /\ subscriptions' = Append(subscriptions, NewSubscription(k, loops[k].scopeNum))
  /\ UNCHANGED oscStream
  /\ UNCHANGED registryVars

\* LiveLoop.globalOscilloscopeData 124-126 -> Coordinator.globalOscilloscopeData
\* 148-150, and subscribe
GlobalOscilloscopeData ==
  /\ TelemetryAllowed
  /\ Len(subscriptions) < MaxSubscriptions
  /\ subscriptions' = Append(subscriptions,
                             NewSubscription(GlobalCall, GLOBAL_OSCILLOSCOPE_INDEX))
  /\ UNCHANGED oscStream
  /\ UNCHANGED registryVars

\* the transport produces a record; the runs explored are those in which
\* neighbouring records differ, so that their order shows in what is received
OscData(rec) ==
  /\ TelemetryAllowed
  /\ Len(oscStream) < MaxRecords
  /\ oscStream # <<>> => rec # oscStream[Len(oscStream)]
  /\ oscStream' = Append(oscStream, rec)
  /\ subscriptions' = Deliver(subscriptions, rec)
  /\ UNCHANGED registryVars

\* a subscriber stops listening: its subscription is gone from the stream
Unsubscribe(i) ==
  /\ i \in 1..Len(subscriptions)
  /\ subscriptions' = [j \in 1..(Len(subscriptions) - 1) |->
                         IF j < i THEN subscriptions[j] ELSE subscriptions[j + 1]]
  /\ UNCHANGED oscStream
  /\ UNCHANGED registryVars

NextTelemetry ==
  \/ \E name \in LiveLoopName : NewLiveLoop(name)
  \/ \E k \in 1..MaxLoops : Delete(k)
  \/ \E k \in 1..MaxLoops : OscilloscopeData(k)
  \/ GlobalOscilloscopeData
  \/ \E c \in GLOBAL_OSCILLOSCOPE_INDEX..(ScopeLimit - 1) : OscilloscopeDataForIndex(c)
  \/ \E rec \in OscRecords : OscData(rec)
  \/ \E i \in 1..MaxSubscriptions : Unsubscribe(i)

\* Telemetry does not read the effect directory: one catalog size is explored.
InitTelemetry == Init /\ numOfEffects = MaxEffects

SpecTelemetry == InitTelemetry /\ [][NextTelemetry]_vars

\* The calls that change what generateRuby reads or what the coordinator
\* holds, together with generateRuby called on its own.
NextCompile ==
  \/ \E name \in LiveLoopName : NewLiveLoop(name)
  \/ \E k \in 1..MaxLoops : Delete(k)
  \/ \E k \in 1..MaxLoops, v \in VolumeInputs : SetVolume(k, v)
  \/ \E k \in 1..MaxLoops : NextEffect(k)
  \/ \E k \in 1..MaxLoops : GenerateRuby(k)

SpecCompile == Init /\ [][NextCompile]_vars

\* ================================================================== claims
Channels == FirstScope..(ScopeLimit - 1)
Setters == {"setVolume", "nextEffect", "prevEffect"}

\* number of declaration blocks (live_loop :tag do ... end) for tag inside
\* the global wrapper of program p
DeclCount(p, tag) ==
  Cardinality({i \in 1..Len(p.inside) :
                 /\ p.inside[i][1].fx = "live_loop"
                 /\ p.inside[i][1].tag = tag})

\* number of stop blocks for tag in program p
StopBlocks(p, tag) == Count(p.after, tag)

\* The state right after the calls: create A, create B, remove A, create C
\* (A, B, C are loops[1], loops[2], loops[3]; no setter call was made).
ScenarioABC ==
  /\ called = [op |-> "new", loop |-> 3, arg |-> 0]
  /\ idCount = 3
  /\ activeLoops = <<2, 3>>
  /\ setterCalls = 0

\* C1 (as claimed): in every state the channels held by the loops of
\* activeLoops are pairwise distinct and each is an integer of [2, ScopeLimit-1].
C1_ActiveChannelsValid ==
  /\ \A i \in 1..Len(activeLoops) : loops[activeLoops[i]].scopeNum \in Channels
  /\ \A i, j \in 1..Len(activeLoops) :
       i # j => loops[activeLoops[i]].scopeNum # loops[activeLoops[j]].scopeNum

\* C2 (as claimed): a constructor call made while the pool is empty and every
\* channel is held by an active loop throws and changes nothing: no loop is
\* registered, the id counter and the pool stay, no program is published.
C2_ExhaustedCreateFails ==
  [][ ( /\ freeScopeNums = <<>>
        /\ Len(activeLoops) = Cardinality(Channels)
        /\ called'.op = "new" )
      => ( /\ thrown' # "none"
           /\ runCodeLog' = <<>>
           /\ UNCHANGED <<activeLoops, deadLoops, freeScopeNums, idCount, loops>> )
    ]_vars

\* C3 (as claimed): a constructor call on a non-empty pool gives the new loop
\* the lowest-numbered channel of the pool.
C3_LowestFree ==
  [][ (called'.op = "new" /\ freeScopeNums # <<>>)
      => \A c \in Range(freeScopeNums) : loops'[called'.loop].scopeNum <= c
    ]_vars

\* C3 (amended): a constructor call gives the new loop the first element of
\* the free list and removes it from the list (undefined, list unchanged, when
\* the list is empty); in the scenario A has channel 2, B has 3, the removal of
\* A has put 2 at the tail of the list, and C has the head of the list, 4.
C3_FifoHead ==
  /\ [][ called'.op = "new"
         => IF freeScopeNums = <<>>
            THEN /\ loops'[called'.loop].scopeNum = UndefinedScope
                 /\ freeScopeNums' = <<>>
            ELSE /\ loops'[called'.loop].scopeNum = freeScopeNums[1]
                 /\ freeScopeNums' = Tail(freeScopeNums)
       ]_vars
  /\ [](ScenarioABC =>
          /\ loops[1].scopeNum = FirstScope
          /\ loops[2].scopeNum = FirstScope + 1
          /\ loops[3].scopeNum = FirstScope + 2
          /\ freeScopeNums # <<>>
          /\ freeScopeNums[Len(freeScopeNums)] = FirstScope)

\* C3 witness: the scenario has run and C holds channel 4 while 2 is free.
C3_Witness ==
  /\ ScenarioABC
  /\ loops[3].scopeNum = FirstScope + 2
  /\ FirstScope \in Range(freeScopeNums)

\* C4: for every loop deleted while active the stop block for its tag is
\* handed to runCode exactly once over all programs: no stop block while the
\* loop is active, one in the single program its delete call publishes, and
\* the total stays one in every later state.
C4_StopExactlyOnce ==
  /\ \A k \in Constructed :
       stopCount[k] = IF k \in Range(activeLoops) THEN 0 ELSE 1
  /\ (called.op = "delete" /\ thrown = "none")
       => /\ Len(runCodeLog) = 1
          /\ StopBlocks(runCodeLog[1], loops[called.loop].tag) = 1
  /\ \A i \in 1..Len(runCodeLog) :
       \A k \in Constructed :
         StopBlocks(runCodeLog[i], loops[k].tag) > 0
           => (called.op = "delete" /\ called.loop = k)

\* C4 witness: a loop was deleted and a later call has published a program.
C4_Witness ==
  \E k \in Constructed :
    /\ k \notin Range(activeLoops)
    /\ stopCount[k] = 1
    /\ called.op \in {"new", "nextEffect", "prevEffect"}
    /\ Len(runCodeLog) = 1
    /\ StopBlocks(runCodeLog[1], loops[k].tag) = 0

\* C5 (as claimed): in the scenario the program compiled when C is created
\* holds exactly one stop block for A's tag and declarations of B and C only.
C5_StopInProgramOfC ==
  ScenarioABC =>
    /\ Len(runCodeLog) = 1
    /\ StopBlocks(runCodeLog[1], loops[1].tag) = 1
    /\ DeclCount(runCodeLog[1], loops[1].tag) = 0
    /\ DeclCount(runCodeLog[1], loops[2].tag) = 1
    /\ DeclCount(runCodeLog[1], loops[3].tag) = 1
    /\ Len(runCodeLog[1].inside) = 2

\* C5 (amended): in the scenario the one stop block for A's tag was in the
\* program published by the removal of A; the program compiled when C is
\* created holds no stop block and declarations of B and C only.
C5_StopInProgramOfRemoval ==
  ScenarioABC =>
    /\ Len(runCodeLog) = 1
    /\ runCodeLog[1].after = <<>>
    /\ stopCount[1] = 1
    /\ DeclCount(runCodeLog[1], loops[1].tag) = 0
    /\ DeclCount(runCodeLog[1], loops[2].tag) = 1
    /\ DeclCount(runCodeLog[1], loops[3].tag) = 1
    /\ Len(runCodeLog[1].inside) = 2

\* C5 witness: the scenario has run, its last program declares two loops and
\* the stop block of A has been published before.
C5_Witness ==
  /\ ScenarioABC
  /\ Len(runCodeLog) = 1
  /\ Len(runCodeLog[1].inside) = 2
  /\ stopCount[1] = 1

\* C6: a delete call on a loop that is not in activeLoops (a second delete
\* included) throws and changes nothing: activeLoops, deadLoops, the pool and
\* the loops stay, the channel is not pushed again, no program is published.
\* A delete call on an active loop returns, takes the loop out of activeLoops
\* and appends its channel to the pool.
C6_DeleteOfInactiveFails ==
  [][ called'.op = "delete"
      => LET k == called'.loop
         IN IF k \in Range(activeLoops)
            THEN /\ thrown' = "none"
                 /\ k \notin Range(activeLoops')
                 /\ freeScopeNums' = Append(freeScopeNums, loops[k].scopeNum)
                 /\ Len(runCodeLog') = 1
            ELSE /\ thrown' = "Error"
                 /\ runCodeLog' = <<>>
                 /\ Count(freeScopeNums', loops[k].scopeNum)
                      = Count(freeScopeNums, loops[k].scopeNum)
                 /\ UNCHANGED <<activeLoops, deadLoops, freeScopeNums, loops,
                                stopCount>>
    ]_vars

\* C6 witness: a loop was deleted and a second delete of it has just thrown.
C6_Witness ==
  /\ called.op = "delete"
  /\ thrown = "Error"
  /\ called.loop \notin Range(activeLoops)
  /\ stopCount[called.loop] = 1
  /\ Count(freeScopeNums, loops[called.loop].scopeNum) = 1

\* C7 (as claimed): a setter called on a loop that is not active throws and
\* is a no-op: volume, effect index and effect descriptor stay and no program
\* is published.
C7_SetterOnDeletedIsNoOp ==
  [][ (called'.op \in Setters /\ called'.loop \notin Range(activeLoops))
      => /\ thrown' # "none"
         /\ loops' = loops
         /\ runCodeLog' = <<>>
    ]_vars

\* C8 (as claimed): every program handed to runCode holds exactly one
\* declaration block per loop of activeLoops, none for any other loop, one
\* stop block per loop that was in deadLoops, and deadLoops is empty after.
C8_OneBlockPerLoop ==
  \A i \in 1..Len(runCodeLog) :
    /\ \A k \in Constructed :
         DeclCount(runCodeLog[i], loops[k].tag)
           = IF k \in Range(activeLoops) THEN 1 ELSE 0
    /\ Len(runCodeLog[i].inside) = Len(activeLoops)
    /\ \A k \in Constructed :
         StopBlocks(runCodeLog[i], loops[k].tag)
           = IF called.op = "delete" /\ called.loop = k THEN 1 ELSE 0
    /\ deadLoops = <<>>

\* C9: after every call each constructed loop is in exactly one place:
\* in activeLoops once, in deadLoops once, or in neither after its delete
\* (its stop block published); a loop leaves activeLoops only by its own
\* delete call, so a loop never deleted is in activeLoops.
C9_ExactlyOnePlace ==
  /\ [](\A k \in Constructed :
          /\ Count(activeLoops, k) + Count(deadLoops, k) <= 1
          /\ (Count(activeLoops, k) + Count(deadLoops, k) = 0) => stopCount[k] = 1
          /\ (Count(activeLoops, k) = 1) => stopCount[k] = 0)
  /\ [](Range(activeLoops) \cup Range(deadLoops) \subseteq Constructed)
  /\ [][ \A k \in 1..MaxLoops :
           (k \notin Range(activeLoops'))
             => \/ k \notin DOMAIN loops'
                \/ (k \in Constructed /\ k \notin Range(activeLoops))
                \/ (called'.op = "delete" /\ called'.loop = k /\ thrown' = "none")
       ]_vars

\* C9 witness: one loop is active and another has been deleted and forgotten.
C9_Witness ==
  \E a, d \in Constructed :
    /\ a \in Range(activeLoops)
    /\ d \notin Range(activeLoops) /\ d \notin Range(deadLoops)
    /\ stopCount[d] = 1

\* C10 (as claimed): every loop's effect index is in [0, numOfEffects), for
\* every catalog size and every sequence of nextEffect and prevEffect calls.
C10_EffectIndexInRange ==
  \A k \in Constructed : loops[k].effectNum \in 0..(numOfEffects - 1)

\* C11 (as claimed): from every index i of [0, numOfEffects) a loop can be
\* at, nextEffect then prevEffect ends at i, and prevEffect then nextEffect
\* ends at i (the index arithmetic of lines 61 and 70 applied in turn).
C11_NextPrevRoundTrip ==
  \A k \in Constructed :
    LET i == loops[k].effectNum
    IN i \in 0..(numOfEffects - 1)
         => /\ PrevIndex(NextIndex(i, numOfEffects), numOfEffects) = i
            /\ NextIndex(PrevIndex(i, numOfEffects), numOfEffects) = i

\* C12 (as claimed): a setVolume call on an active loop hands one program to
\* runCode before it returns, and in it the loop's declaration carries the
\* new clamped volume.
C12_SetVolumePublishes ==
  [][ (called'.op = "setVolume" /\ called'.loop \in Range(activeLoops))
      => /\ Len(runCodeLog') = 1
         /\ \E j \in 1..Len(runCodeLog'[1].inside) :
              LET r == runCodeLog'[1].inside[j]
              IN /\ Len(r) = 5
                 /\ r[1].tag = loops[called'.loop].tag
                 /\ r[3].amp = loops'[called'.loop].volume
    ]_vars

\* C13: every loop's volume is in [0, 1] in every state (1 at construction),
\* and setVolume(v) leaves 0 when v < 0, 1 when v > 1 and v otherwise
\* (volumes in tenths: -50 gives 0, 50 gives 10, 3 gives 3).
C13_VolumeClamped ==
  /\ [](\A k \in Constructed : loops[k].volume \in 0..VolumeUnit)
  /\ [](called.op = "new" => loops[called.loop].volume = VolumeUnit)
  /\ [][ called'.op = "setVolume"
         => LET v == called'.arg
            IN loops'[called'.loop].volume =
                 IF v < 0 THEN 0 ELSE IF v > VolumeUnit THEN VolumeUnit ELSE v
       ]_vars

\* C13 witness: setVolume(-5.0) has just been called on a loop whose volume
\* was not 0 and the loop's volume is 0.
C13_Witness ==
  /\ called.op = "setVolume"
  /\ called.arg = -50
  /\ loops[called.loop].volume = 0

\* The text the spec's compile() gives for a loop: body, effect wrapper,
\* volume wrapper, telemetry wrapper, declaration (listed outermost first).
CompileOf(tag, channel, volume, effectName, body) ==
  << [fx |-> "live_loop", tag |-> tag],
     [fx |-> "sonic-pi-fx_scope_out", scope_num |-> channel],
     [fx |-> "level", amp |-> volume],
     [fx |-> "with_fx", name |-> effectName],
     [fx |-> "body", text |-> body] >>

\* C16 (as claimed): in every program handed to runCode the block of every
\* active loop is the compile of that loop's current volume, effect, channel
\* and tag, whichever call triggered the publish (stated for the loops whose
\* effect descriptor is defined).
C16_ConsistentSnapshot ==
  \A i \in 1..Len(runCodeLog) :
    /\ Len(runCodeLog[i].inside) = Len(activeLoops)
    /\ \A j \in 1..Len(activeLoops) :
         LET l == loops[activeLoops[j]]
         IN l.effectData.defined
              => runCodeLog[i].inside[j]
                   = CompileOf(l.tag, l.scopeNum, l.volume, l.effectData.name,
                               l.rawRuby)

\* C17 (as claimed): a loop's compiled fragment nests, innermost first, the
\* body template looked up for its name at creation, the effect wrapper, the
\* volume wrapper, the telemetry wrapper with its channel and the declaration
\* with its tag loop_<id>_<name>.
C17_NestingAroundBody ==
  called.op = "new"
    => LET l == loops[called.loop]
       IN l.outputRuby
            = CompileOf([id |-> called.loop - 1, name |-> l.name], l.scopeNum,
                        l.volume, l.effectData.name, getRubyForLiveLoop(l.name))

\* C18 (as claimed): in every program the header comes first, outside any
\* wrapper, then one global wrapper on channel 1 that encloses the
\* declaration blocks of the active loops and nothing else, then the stop
\* blocks; one runCode call per compile.
C18_HeaderOutsideWrapper ==
  /\ Len(runCodeLog) <= 1
  /\ \A i \in 1..Len(runCodeLog) :
       LET p == runCodeLog[i]
       IN /\ p.before = <<header>>
          /\ p.scope_num = GLOBAL_OSCILLOSCOPE_INDEX
          /\ Len(p.inside) = Len(activeLoops)

\* C18 (amended): in every program nothing precedes the global wrapper on
\* channel 1; the wrapper encloses the header first and then, for each loop
\* of activeLoops in insertion order, that loop's last generated ruby; the
\* stop blocks follow the wrapper, each for a constructed loop that is not
\* active; a call hands at most one program to runCode.
C18_HeaderInsideWrapper ==
  /\ Len(runCodeLog) <= 1
  /\ \A i \in 1..Len(runCodeLog) :
       LET p == runCodeLog[i]
       IN /\ p.before = <<>>
          /\ p.scope_num = 1
          /\ p.head = header
          /\ Len(p.inside) = Len(activeLoops)
          /\ \A j \in 1..Len(activeLoops) :
               p.inside[j] = loops[activeLoops[j]].outputRuby
          /\ \A j \in 1..Len(p.after) :
               \E k \in Constructed \ Range(activeLoops) : p.after[j] = loops[k].tag

\* C18 witness: a program with the block of an active loop inside the
\* wrapper and a stop block after it has been handed to runCode.
C18_Witness ==
  /\ Len(runCodeLog) = 1
  /\ runCodeLog[1].head = header
  /\ Len(runCodeLog[1].inside) >= 1
  /\ Len(runCodeLog[1].after) = 1

\* number of active loops holding channel c
Holders(c) ==
  Cardinality({i \in 1..Len(activeLoops) : loops[activeLoops[i]].scopeNum = c})

\* C19: every channel of [2, ScopeLimit-1] is in exactly one place: once in
\* the free pool or held by exactly one active loop.
C19_ChannelsConserved ==
  \A c \in Channels : Count(freeScopeNums, c) + Holders(c) = 1

\* C19 witness: channels have been handed out and released: an active loop
\* holds a channel and a released channel lies behind a higher one in the pool.
C19_Witness ==
  /\ \E c \in Channels : Holders(c) = 1
  /\ \E i, j \in 1..Len(freeScopeNums) :
       /\ i < j
       /\ freeScopeNums[j] \in Channels
       /\ freeScopeNums[i] > freeScopeNums[j]

\* C20: once deleted a loop is never again in activeLoops and no program
\* handed to runCode afterwards declares its tag, whatever is called on it or
\* on other loops; ids and tags are never given twice.
C20_RemovalIsFinal ==
  /\ [](\A k \in Constructed :
          stopCount[k] >= 1
            => /\ k \notin Range(activeLoops)
               /\ \A i \in 1..Len(runCodeLog) :
                    DeclCount(runCodeLog[i], loops[k].tag) = 0)
  /\ [](\A j, k \in Constructed :
          j # k => (loops[j].id # loops[k].id /\ loops[j].tag # loops[k].tag))
  /\ [][ \A k \in Constructed :
           /\ k \notin Range(activeLoops) => k \notin Range(activeLoops')
           /\ loops'[k].id = loops[k].id
           /\ loops'[k].tag = loops[k].tag
       ]_vars

\* C20 witness: nextEffect or prevEffect was called on a deleted loop and
\* has published a program.
C20_Witness ==
  /\ called.op \in {"nextEffect", "prevEffect"}
  /\ called.loop \notin Range(activeLoops)
  /\ stopCount[called.loop] = 1
  /\ Len(runCodeLog) = 1

\* C14: LiveLoop.generateRuby is a function of the loop's own fields: called
\* when the fields it reads are what its last completed run read, it leaves
\* the same text, whatever the coordinator holds by then; it changes no
\* field it reads, no other loop and nothing of the coordinator (activeLoops,
\* deadLoops, the pool, the last program), and hands nothing to runCode.
C14_CompileIsPure ==
  [][ called'.op = "generateRuby"
      => LET k == called'.loop
         IN /\ UNCHANGED <<activeLoops, deadLoops, freeScopeNums, outputRuby,
                           idCount, stopCount>>
            /\ runCodeLog' = <<>>
            /\ FieldsRead(loops'[k]) = FieldsRead(loops[k])
            /\ \A j \in Constructed : j # k => loops'[j] = loops[j]
            /\ (thrown' = "none" /\ compiledFrom[k] = FieldsRead(loops[k]))
                 => loops'[k].outputRuby = loops[k].outputRuby
    ]_vars

\* C14 witness: generateRuby has just run again on a loop whose fields are
\* those of its previous run, after another loop was constructed.
C14_Witness ==
  /\ called.op = "generateRuby"
  /\ thrown = "none"
  /\ idCount > called.loop
  /\ Len(activeLoops) >= 2
  /\ loops[called.loop].volume = VolumeUnit
  /\ loops[called.loop].effectNum = 0

\* what a subscription made after `since` records on channel c has been
\* handed once the stream holds oscStream: field c of each later record
FieldOfEach(since, c) ==
  [n \in 1..(Len(oscStream) - since) |-> oscStream[since + n][c]]

\* C15: every subscription to a channel has received exactly that channel's
\* field of each record the stream produced since it was made, one value per
\* record in arrival order, whatever other subscriptions exist; the global
\* subscription is the one on channel GLOBAL_OSCILLOSCOPE_INDEX and a loop's
\* is the one on its scopeNum; a step of the stream or of a subscriber
\* changes nothing of the registry (activeLoops, deadLoops, the pool), and a
\* loop's creation or removal changes nothing of the stream or of what the
\* subscribers hold, so that delivery goes on through them.
C15_TelemetryDemux ==
  /\ [] (\A i \in 1..Len(subscriptions) :
           LET s == subscriptions[i]
           IN /\ s.received = FieldOfEach(s.since, s.scopeNum)
              /\ s.via = GlobalCall => s.scopeNum = GLOBAL_OSCILLOSCOPE_INDEX
              /\ s.via \in Constructed => s.scopeNum = loops[s.via].scopeNum)
  /\ [][ /\ telemetryVars' # telemetryVars => UNCHANGED registryVars
         /\ registryVars' # registryVars => UNCHANGED telemetryVars
       ]_vars

\* C15 witness: two records have been delivered; a loop's subscription made
\* before the first has both values, a subscription on another channel made
\* after the first has one, and the loop was deleted before the last record
\* arrived.
C15_Witness ==
  /\ Len(oscStream) = 2
  /\ Len(subscriptions) = 2
  /\ subscriptions[1].via \in Constructed
  /\ subscriptions[1].via \notin Range(activeLoops)
  /\ subscriptions[1].received
       = <<oscStream[1][subscriptions[1].scopeNum],
           oscStream[2][subscriptions[1].scopeNum]>>
  /\ subscriptions[2].scopeNum # subscriptions[1].scopeNum
  /\ subscriptions[2].since = 1
  /\ subscriptions[2].received = <<oscStream[2][subscriptions[2].scopeNum]>>
  /\ subscriptions[1].received[2] # subscriptions[2].received[1]

====
